---- MODULE Spec2Model ----
(***************************************************************************)
(* Forge: the watch loop (Observer), the notify fan-out, the deploy        *)
(* orchestration (DeployInvoker) and the container replacement             *)
(* (DockerfileDeployer), as wired by run() in cmd/main.go or constructed   *)
(* directly through observer.New.                                          *)
(***************************************************************************)
EXTENDS Integers, FiniteSets, Sequences, TLC

VARIABLES
    wired,      \* "main": run() of cmd/main.go; "direct": observer.New used directly
    nsubs,      \* len(o.subscriptions)
    cancelled,  \* ctx.Done() is closed
    rpc,        \* position of run() in cmd/main.go
    runRet,     \* what run() returned
    pc,         \* position of Observer.Observe
    ret,        \* what Observe returned
    err,        \* Observe's local err of the last GetRepository
    r,          \* Observe's local r.PushedAt of the last GetRepository
    lastPushed, \* package variable lastPushed
    wg,         \* counter of notify's sync.WaitGroup
    sub,        \* state of the goroutine notify started for each subscription
    ticks,      \* number of GetRepository calls made
    fanouts,    \* number of notify calls made
    dpc,        \* position of DeployInvoker.Deploy / DockerfileDeployer.Deploy
    dcaller,    \* who called DeployInvoker.Deploy: "run" or "notify"
    derr,       \* the error DeployInvoker.Deploy returns
    isEmpty,    \* DeployInvoker.Deploy's local isEmpty
    found,      \* ID of the container safeRemoveContainer matched, 0 if none
    attempts,   \* number of DeployInvoker.Deploy calls made
    prevOk,     \* the previous DeployInvoker.Deploy call returned nil
    workspace,  \* entries of the clone directory, each <<name, attempt that wrote it>>
    containers, \* containers known to the container runtime
    nextId,     \* next container ID the runtime hands out
    svcBefore,  \* IDs of the target-named containers when DockerfileDeployer.Deploy began
    builds,     \* number of image builds the program has run
    env,        \* what the process is started with: environment, config file, URL
    client,     \* the git client run() constructed, "none" before
    pinged,     \* number of git.Ping calls made
    fname,      \* the function a direct call is made to, "none" if none
    fin,        \* the argument of that call
    fout,       \* the results of the calls made so far
    sinceFetch, \* seconds since the last GetRepository call of Observe
    crashed,    \* the process restarts so far and what the last one interrupted
    o2          \* a second Observer of the same process: its position and locals

\* what no step of the watch loop or of a deploy attempt changes
startVars == <<env, client, pinged>>
fnVars == <<fname, fin, fout>>
baseVars == <<wired, nsubs, builds, startVars, fnVars>>
cfgVars == <<baseVars, sinceFetch, crashed, o2>>
runVars == <<rpc, runRet>>
obsVars == <<pc, ret, err, r, lastPushed, ticks, fanouts>>
wgVars  == <<wg, sub>>
depVars == <<dpc, dcaller, derr, isEmpty, found, attempts, prevOk>>
rtVars  == <<containers, nextId, svcBefore>>
vars == <<wired, nsubs, cancelled, rpc, runRet, pc, ret, err, r, lastPushed, wg, sub,
          ticks, fanouts, dpc, dcaller, derr, isEmpty, found, attempts, prevOk,
          workspace, containers, nextId, svcBefore, builds, env, client, pinged,
          fname, fin, fout, sinceFetch, crashed, o2>>

----------------------------------------------------------------------------
(* Bounds *)

MaxTime == 3
MaxTicks == 3
MaxSubs == 2
MaxPathLen == 4
MaxCrashes == 1
StartTime == 1

\* the longest a sleep overruns, in seconds
Jitter == 1

Times == 0..MaxTime

----------------------------------------------------------------------------
(* Names *)

\* di.git.GetRepoName(), the container name of every deploy attempt
Target == "svc"

\* the subscription main.go registers: di.Deploy
DeploySub == 1

Subs == 1..nsubs

\* what a clone may write into the clone directory
Trees == {{"Dockerfile", "main.go"}, {"main.go"}}

Tag(tree, n) == {<<f, n>> : f \in tree}

\* clone directory contents left by an earlier process
StaleWorkspaces == {{}, {<<"Dockerfile", 0>>, <<"old.txt", 0>>}}

\* containers that may exist before the program starts
PreTarget == {[id |-> 1, names |-> {Target}, state |-> s] :
                s \in {"running", "paused", "exited"}}
PreOther == {[id |-> 2, names |-> {"other"}, state |-> "running"]}
PreContainers == {t \cup o : t \in {{}} \cup {{c} : c \in PreTarget},
                             o \in {{}, PreOther}}

\* hostnames a repository URL may have
GithubHost == "github.com"
GitlabHost == "gitlab.com"
Hosts == {GithubHost, GitlabHost, "example.com"}

\* a URL path is a sequence of pieces, each "/" or a name without "/"
AcmeSvc == <<"/", "acme", "/", "svc">>

\* configFileDefaults() with a token in the environment: a start that passes
\* every check of MustParse
DefaultEnv ==
    [token |-> TRUE, file |-> "ok", logDir |-> TRUE, host |-> GithubHost,
     path |-> AcmeSvc, cloneDir |-> TRUE, interval |-> 30, timeout |-> 2]

\* the process environment and config.yaml the program may be started with
Configs ==
    [token : BOOLEAN, file : {"ok", "unreadable", "badyaml"}, logDir : BOOLEAN,
     host : Hosts, path : {AcmeSvc, <<"/", "acme">>}, cloneDir : BOOLEAN,
     interval : {-1, 0, 30}, timeout : {-1, 0, 2}]

\* the URL paths New is called with
PathPieces == {"/", "a", "b"}
Paths == UNION {[1..n -> PathPieces] : n \in 0..MaxPathLen}
NewInputs ==
    [variant : {GithubHost, GitlabHost},
     params : [nilRepo : BOOLEAN, path : Paths, http : BOOLEAN, token : BOOLEAN]]

\* the -d arguments Generate is called with: a path is a sequence of
\* characters; whether the home directory is known and whether the file
\* system lets the directory and the file be written
DirChars == {"/", ".", "~", "a"}
GenerateInputs ==
    [dir : UNION {[1..n -> DirChars] : n \in 0..MaxPathLen},
     homeOk : BOOLEAN, fsOk : BOOLEAN]

\* the working directory and os.UserHomeDir(), as lists of components
Cwd == << <<"srv">>, <<"app">> >>
Home == << <<"home">>, <<"me">> >>

\* common.deployerSignatures: a Go map
deployerSignatures ==
    [Dockerfile |-> "Dockerfile", DockerCompose |-> "docker-compose"]

\* a file name is a sequence of pieces: a signature string or a string that
\* contains none; FileNames is in the order os.ReadDir returns them (sorted
\* by name, upper case first)
FileNames ==
    << <<"Dockerfile">>,
       <<"docker-compose", ".", "Dockerfile">>,
       <<"docker-compose", ".yml">>,
       <<"k8s.yaml">>,
       <<"main.go">> >>

\* the entries of a directory that holds, of each name, nothing, a file or a
\* directory
EntriesOf(f) ==
    LET idx == SelectSeq([i \in 1..Len(FileNames) |-> i], LAMBDA i : f[i] # "absent")
    IN  [k \in 1..Len(idx) |->
            [name |-> FileNames[idx[k]], isDir |-> f[idx[k]] = "dir"]]

\* the directories GetDeployerType is called with
Dirs ==
    {[readable |-> b, entries |-> EntriesOf(f)] :
        b \in BOOLEAN, f \in [1..Len(FileNames) -> {"absent", "file", "dir"}]}

\* the process has not been restarted
NoCrash == [n |-> 0, pending |-> FALSE, pushed |-> 0, attempts |-> 0]

\* there is no second Observer
NoObserver == [pc |-> "none", r |-> 0, own |-> 0]

\* no git client constructed
NoClient == [variant |-> "none", author |-> <<>>, repo |-> <<>>]

----------------------------------------------------------------------------
(* Pure helpers *)

\* strings.TrimPrefix(s, sep)
TrimPrefix(s, sep) == IF Len(s) > 0 /\ s[1] = sep THEN Tail(s) ELSE s

\* strings.Split(s, sep): the pieces between the separators, empty ones kept
RECURSIVE Split(_, _)
Split(s, sep) ==
    IF \A i \in 1..Len(s) : s[i] # sep
    THEN <<s>>
    ELSE LET k == CHOOSE i \in 1..Len(s) :
                    s[i] = sep /\ \A j \in 1..(i - 1) : s[j] # sep
         IN  <<SubSeq(s, 1, k - 1)>> \o Split(SubSeq(s, k + 1, Len(s)), sep)

\* strings.TrimRight(s, cutset) for a cutset of one character
RECURSIVE TrimRight(_, _)
TrimRight(s, c) ==
    IF Len(s) > 0 /\ s[Len(s)] = c THEN TrimRight(SubSeq(s, 1, Len(s) - 1), c) ELSE s

\* strings.HasPrefix(s, prefix) for a prefix of one character
HasPrefix(s, c) == Len(s) > 0 /\ s[1] = c

\* filepath.Clean of a rooted path given as its components: empty and "."
\* components are dropped, ".." drops the component before it
RECURSIVE CleanAbs(_, _)
CleanAbs(done, comps) ==
    IF comps = <<>> THEN done
    ELSE LET c == Head(comps)
         IN  IF c = <<>> \/ c = <<".">>
             THEN CleanAbs(done, Tail(comps))
             ELSE IF c = <<".", ".">>
             THEN CleanAbs(IF done = <<>> THEN done ELSE SubSeq(done, 1, Len(done) - 1),
                           Tail(comps))
             ELSE CleanAbs(Append(done, c), Tail(comps))

\* filepath.Join(base, rest) for a rooted base
Join(base, rest) == CleanAbs(<<>>, base \o Split(rest, "/"))

\* filepath.Abs(path): a rooted path cleaned, any other joined to the
\* working directory
Abs(path) ==
    IF HasPrefix(path, "/") THEN CleanAbs(<<>>, Split(path, "/")) ELSE Join(Cwd, path)

\* config.Generate: the error, or the directory default.yaml is written to
Generate(in) ==
    LET dir == TrimRight(in.dir, "/")
        Fail(e) == [err |-> e, dir |-> <<>>]
        Write(d) == IF d = <<>> \/ ~in.fsOk THEN Fail("fs")
                    ELSE [err |-> "nil", dir |-> Abs(d)]
        Rooted(cs) == IF ~in.fsOk THEN Fail("fs") ELSE [err |-> "nil", dir |-> cs]
    IN  IF in.dir = <<>> THEN Fail("Invalid path")
        ELSE IF HasPrefix(dir, "~")
        THEN IF ~in.homeOk THEN Fail("home")
             ELSE IF Len(dir) > 1 THEN Rooted(Join(Home, Tail(dir)))
             ELSE Rooted(Home)
        ELSE IF HasPrefix(dir, ".")
        THEN IF Len(dir) > 1 THEN Rooted(Join(Abs(dir), Tail(dir)))
             ELSE Rooted(Abs(dir))
        ELSE Write(dir)

\* git.ValidateParams
ValidateParams(params) ==
    IF params.nilRepo THEN "ErrNilRepoURL"
    ELSE IF ~params.http THEN "ErrNilHttpClient"
    ELSE IF ~params.token THEN "ErrEmptyAccessToken"
    ELSE "nil"

\* the check of the split path in github.New and gitlab.New
SplitOk(sp) == Len(sp) = 2

\* github.New and gitlab.New: the same code for both variants
New(variant, params) ==
    LET sp == Split(TrimPrefix(params.path, "/"), "/")
    IN  IF ValidateParams(params) # "nil"
        THEN [err |-> ValidateParams(params), client |-> NoClient]
        ELSE IF ~SplitOk(sp)
        THEN [err |-> "ErrInvalidRepoURL", client |-> NoClient]
        ELSE [err |-> "nil",
              client |-> [variant |-> variant, author |-> sp[1], repo |-> sp[2]]]

\* the switch on repo.Hostname() in MustParse
\* variant: any host passes
SupportedHost_Any(h) == TRUE
SupportedHost(h) == h \in {GithubHost, GitlabHost}

\* variant: the configuration file is read before the token is looked at
MustParse_FileFirst(e) ==
    IF e.file = "unreadable" THEN "read"
    ELSE IF e.file = "badyaml" THEN "yaml"
    ELSE IF ~e.token THEN "token"
    ELSE IF ~e.logDir THEN "logDir"
    ELSE IF ~SupportedHost(e.host) THEN "host"
    ELSE IF ~e.cloneDir THEN "cloneDir"
    ELSE IF e.interval = 0 THEN "interval"
    ELSE IF e.timeout = 0 THEN "timeout"
    ELSE "ok"

\* config.MustParse: "ok" or the check that panics, in the order of the code
MustParse(e) ==
    IF ~e.token THEN "token"
    ELSE IF e.file = "unreadable" THEN "read"
    ELSE IF e.file = "badyaml" THEN "yaml"
    ELSE IF ~e.logDir THEN "logDir"
    ELSE IF ~SupportedHost(e.host) THEN "host"
    ELSE IF ~e.cloneDir THEN "cloneDir"
    ELSE IF e.interval = 0 THEN "interval"
    ELSE IF e.timeout = 0 THEN "timeout"
    ELSE "ok"

\* the GitClientParams run() builds from the Config
GitParams(e) == [nilRepo |-> FALSE, path |-> e.path, http |-> TRUE, token |-> e.token]

\* strings.Contains(name, pattern)
Contains(name, pattern) == \E i \in 1..Len(name) : name[i] = pattern

\* common.GetDeployerType: the set of results a call can return; `range
\* deployerSignatures` visits the map in an order that Go leaves unspecified,
\* so for the first file that matches any deployer whose pattern it contains
\* may be the one returned
GetDeployerType(dir) ==
    LET entries == dir.entries
        hits == {i \in 1..Len(entries) :
                    /\ ~entries[i].isDir
                    /\ \E d \in DOMAIN deployerSignatures :
                          Contains(entries[i].name, deployerSignatures[d])}
    IN  IF ~dir.readable
        THEN {[type |-> "UnknownContainerTool", err |-> "readdir"]}
        ELSE IF Len(entries) = 0
        THEN {[type |-> "UnknownContainerTool", err |-> "no entries"]}
        ELSE IF hits = {}
        THEN {[type |-> "UnknownContainerTool", err |-> "nil"]}
        ELSE LET i == CHOOSE h \in hits : \A g \in hits : h <= g
             IN  {[type |-> d, err |-> "nil"] :
                    d \in {t \in DOMAIN deployerSignatures :
                              Contains(entries[i].name, deployerSignatures[t])}}

\* how long time.Sleep(d) takes at least: a zero or negative d returns at
\* once
\* variant: the sleep returns at once
SleepTime_None(d) == 0
SleepTime(d) == IF d > 0 THEN d ELSE 0

\* the values a read of the package variable lastPushed can give: while the
\* other Observer is at its unsynchronised write the read is a data race on
\* a three-word time.Time and may give any value
ReadWatermark(otherWrites) == IF otherWrites THEN Times ELSE {lastPushed}

\* time.Time.After
\* variant: any change of pushedAt counts as a push
After_NotEqual(a, b) == a # b
\* variant: an unchanged pushedAt counts as a push
After_OrEqual(a, b) == a >= b
After(a, b) == a > b

\* wg.Add(len(o.subscriptions))
\* variant: one slot short
WgAdd_OneShort(n) == n - 1
WgAdd(n) == n

\* wg.Wait() returns
\* variant: notify does not wait
WaitReturns_NoWait == TRUE
WaitReturns == wg = 0

\* common.IsDirEmpty on a readable directory
\* variant: the directory is always taken to be empty
IsDirEmpty_Always(dir) == TRUE
IsDirEmpty(dir) == dir = {}

\* ContainerList with container.ListOptions{}: All is false, so only the
\* containers that are running (paused and restarting included) are listed
ListedStates == {"running", "paused", "restarting"}
ContainerList(cs) == {c \in cs : c.state \in ListedStates}

\* variant: only a running container is stopped
isStoppable_RunningOnly(state) == state = "running"
isStoppable(state) == state \in {"running", "paused", "restarting"}

\* container.RemoveOptions{Force: false}: what the runtime agrees to remove
Removable(state) == state \notin ListedStates

\* slices.Contains(c.Names, containerName)
\* variant: every listed container matches
NameMatches_Any(c, name) == TRUE
NameMatches(c, name) == name \in c.names

Named(cs, name) == {c \in cs : name \in c.names}

AllReturned == \A i \in Subs : sub[i] \in {"ok", "failed"}
SomeFailed == \E i \in Subs : sub[i] = "failed"
SomeRunning == \E i \in Subs : sub[i] = "running"

----------------------------------------------------------------------------
(* Initial states *)

InitCommon ==
    /\ cancelled = FALSE
    /\ runRet = "none"
    /\ ret = "none"
    /\ err = "nil"
    /\ r = 0
    /\ lastPushed = StartTime
    /\ wg = 0
    /\ sub = [i \in Subs |-> "idle"]
    /\ ticks = 0
    /\ fanouts = 0
    /\ dpc = "idle"
    /\ dcaller = "none"
    /\ derr = "nil"
    /\ isEmpty = FALSE
    /\ found = 0
    /\ attempts = 0
    /\ prevOk = FALSE
    /\ workspace \in StaleWorkspaces
    /\ containers \in PreContainers
    /\ nextId = 3
    /\ svcBefore = {}
    /\ builds = 0
    /\ sinceFetch = 0
    /\ crashed = NoCrash

\* no call is made to a function on its own
InitNoCall ==
    /\ fname = "none"
    /\ fin = <<>>
    /\ fout = <<>>

\* one Observer in the process
InitAlone == o2 = NoObserver

\* a second Observer, with no subscriptions, is observing in the same process
InitTwo == o2 = [pc |-> "fetch", r |-> 0, own |-> StartTime]

\* run() has passed MustParse, the client construction and the ping
InitStarted ==
    /\ env = DefaultEnv
    /\ client = New(GithubHost, GitParams(DefaultEnv)).client
    /\ pinged = 1

\* the Observer is used without run()
InitNotStarted ==
    /\ env = DefaultEnv
    /\ client = NoClient
    /\ pinged = 0

\* run() in cmd/main.go: one subscription, context.Background()
InitMain ==
    /\ wired = "main"
    /\ nsubs = 1
    /\ rpc = "isDirEmpty"
    /\ pc = "idle"
    /\ InitStarted

\* observer.New(...).Observe(ctx, u) with any subscription list and a
\* cancellable context
InitDirect ==
    /\ wired = "direct"
    /\ nsubs \in 1..MaxSubs
    /\ rpc = "observe"
    /\ pc = "select"
    /\ InitNotStarted

Init == (InitMain \/ InitDirect) /\ InitCommon /\ InitNoCall /\ InitAlone

\* one Observer, or two in the same process
TwoInit ==
    /\ \/ (InitMain \/ InitDirect) /\ InitAlone
       \/ InitDirect /\ nsubs = 1 /\ InitTwo
    /\ InitCommon
    /\ InitNoCall

\* run() from its first line, with any configuration
InitBoot ==
    /\ wired = "main"
    /\ nsubs = 1
    /\ rpc = "mustParse"
    /\ pc = "idle"
    /\ env \in Configs
    /\ client = NoClient
    /\ pinged = 0

StartInit == (InitBoot \/ InitDirect) /\ InitCommon /\ InitNoCall /\ InitAlone

\* a call of New or of GetDeployerType on its own, nothing else running
FnInit ==
    /\ \/ fname = "New" /\ fin \in NewInputs
       \/ fname = "GetDeployerType" /\ fin \in Dirs
       \/ fname = "Generate" /\ fin \in GenerateInputs
    /\ fout = <<>>
    /\ wired = "none"
    /\ nsubs = 1
    /\ rpc = "exit"
    /\ pc = "done"
    /\ InitNotStarted
    /\ InitCommon
    /\ InitAlone
    /\ workspace = {}
    /\ containers = {}

----------------------------------------------------------------------------
(* Observer.Observe *)

\* variant: the select does not look at ctx.Done()
ObserveSelect_IgnoreDone ==
    /\ pc = "select"
    /\ ticks < MaxTicks
    /\ pc' = "fetch"
    /\ UNCHANGED <<ret, err, r, lastPushed, ticks, fanouts>>
    /\ UNCHANGED <<cfgVars, cancelled, runVars, wgVars, depVars, workspace, rtVars>>

\* the select at the top of the loop
ObserveSelect ==
    /\ pc = "select"
    /\ IF cancelled
       THEN /\ pc' = "done"
            /\ ret' = "nil"
       ELSE /\ ticks < MaxTicks
            /\ pc' = "fetch"
            /\ ret' = ret
    /\ UNCHANGED <<err, r, lastPushed, ticks, fanouts>>
    /\ UNCHANGED <<cfgVars, cancelled, runVars, wgVars, depVars, workspace, rtVars>>

\* variant: only the goroutine of the first subscription is started
NotifyStart_FirstOnly ==
    /\ wg' = WgAdd(nsubs)
    /\ sub' = [i \in Subs |-> IF i = DeploySub THEN "running" ELSE "idle"]
    /\ fanouts' = fanouts + 1
    /\ dpc' = "isDirEmpty"
    /\ dcaller' = "notify"
    /\ derr' = "nil"
    /\ attempts' = attempts + 1
    /\ UNCHANGED <<isEmpty, found, prevOk>>

\* notify up to wg.Wait(): wg.Add and one goroutine per subscription; the
\* goroutine of di.Deploy enters DeployInvoker.Deploy
NotifyStart ==
    /\ wg' = WgAdd(nsubs)
    /\ sub' = [i \in Subs |-> "running"]
    /\ fanouts' = fanouts + 1
    /\ dpc' = "isDirEmpty"
    /\ dcaller' = "notify"
    /\ derr' = "nil"
    /\ attempts' = attempts + 1
    /\ UNCHANGED <<isEmpty, found, prevOk>>

\* variant: a failed fetch is retried after the sleep
FetchFailed_Retry ==
    /\ err' = "fetch"
    /\ pc' = "sleep"
    /\ ret' = ret
    /\ UNCHANGED <<r, fanouts, wgVars, depVars>>

\* GetRepository failed: Observe returns the error
FetchFailed ==
    /\ err' = "fetch"
    /\ pc' = "done"
    /\ ret' = "fetch"
    /\ UNCHANGED <<r, fanouts, wgVars, depVars>>

\* GetRepository returned pushedAt
Fetched(pushedAt) ==
    /\ err' = "nil"
    /\ r' = pushedAt
    /\ ret' = ret
    /\ \E w \in ReadWatermark(o2.pc = "update") :
        IF After(pushedAt, w)
        THEN /\ NotifyStart
             /\ pc' = "wait"
        ELSE /\ pc' = "sleep"
             /\ UNCHANGED <<fanouts, wgVars, depVars>>

\* r, err := o.git.GetRepository(ctx) and the comparison with lastPushed;
\* a request on a cancelled context fails
ObserveFetch ==
    /\ pc = "fetch"
    /\ ticks' = ticks + 1
    /\ sinceFetch' = 0
    /\ \/ FetchFailed
       \/ /\ ~cancelled
          /\ \E pushedAt \in Times : Fetched(pushedAt)
    /\ UNCHANGED <<lastPushed>>
    /\ UNCHANGED <<baseVars, crashed, o2, cancelled, runVars, workspace, rtVars>>

\* wg.Wait() returns and with it notify
NotifyReturn ==
    /\ pc = "wait"
    /\ WaitReturns
    /\ pc' = "update"
    /\ UNCHANGED <<wgVars, ret, err, r, lastPushed, ticks, fanouts>>
    /\ UNCHANGED <<cfgVars, cancelled, runVars, depVars, workspace, rtVars>>

\* variant: the watermark moves on by one push
UpdateWatermark_OneStep ==
    /\ pc = "update"
    /\ lastPushed' = lastPushed + 1
    /\ pc' = "sleep"
    /\ UNCHANGED <<ret, err, r, ticks, fanouts>>
    /\ UNCHANGED <<cfgVars, cancelled, runVars, wgVars, depVars, workspace, rtVars>>

\* lastPushed = r.PushedAt
UpdateWatermark ==
    /\ pc = "update"
    /\ lastPushed' = r
    /\ pc' = "sleep"
    /\ UNCHANGED <<ret, err, r, ticks, fanouts>>
    /\ UNCHANGED <<cfgVars, cancelled, runVars, wgVars, depVars, workspace, rtVars>>

\* time.Sleep(o.interval): the interval, or longer by what the scheduler adds
ObserveSleep ==
    /\ pc = "sleep"
    /\ pc' = "select"
    /\ \E late \in {0, Jitter} : sinceFetch' = sinceFetch + SleepTime(env.interval) + late
    /\ UNCHANGED <<ret, err, r, lastPushed, ticks, fanouts>>
    /\ UNCHANGED <<baseVars, crashed, o2, cancelled, runVars, wgVars, depVars,
                   workspace, rtVars>>

\* variant: the context of run() is cancelled as well
Cancel_Any ==
    /\ ~cancelled
    /\ cancelled' = TRUE
    /\ UNCHANGED <<cfgVars, runVars, obsVars, wgVars, depVars, workspace, rtVars>>

\* the owner of a cancellable context cancels it
Cancel ==
    /\ wired = "direct"
    /\ ~cancelled
    /\ cancelled' = TRUE
    /\ UNCHANGED <<cfgVars, runVars, obsVars, wgVars, depVars, workspace, rtVars>>

----------------------------------------------------------------------------
(* The goroutines of notify *)

\* the body of the goroutine once sub(ctx) has returned e
GoroutineExit(i, e) ==
    IF e # "nil"
    THEN /\ sub' = [sub EXCEPT ![i] = "failed"]
         /\ wg' = wg
    ELSE /\ sub' = [sub EXCEPT ![i] = "ok"]
         /\ wg' = wg - 1

\* a subscription other than di.Deploy returns
SubReturn(i) ==
    /\ i \in Subs \ {DeploySub}
    /\ sub[i] = "running"
    /\ \E e \in {"nil", "failed"} : GoroutineExit(i, e)
    /\ UNCHANGED <<cfgVars, cancelled, runVars, obsVars, depVars, workspace, rtVars>>

\* di.Deploy returns to its goroutine
DeploySubReturn ==
    /\ dcaller = "notify"
    /\ dpc = "ret"
    /\ sub[DeploySub] = "running"
    /\ GoroutineExit(DeploySub, derr)
    /\ dpc' = "idle"
    /\ prevOk' = (derr = "nil")
    /\ UNCHANGED <<dcaller, derr, isEmpty, found, attempts>>
    /\ UNCHANGED <<cfgVars, cancelled, runVars, obsVars, workspace, rtVars>>

----------------------------------------------------------------------------
(* DeployInvoker.Deploy *)

\* variant: a failed check, clean or clone does not end the attempt
DeployFails_GoOn(e) ==
    /\ derr' = e
    /\ dpc' = IF e \in {"fs", "clone"} THEN "list" ELSE "ret"

\* return err
DeployFails(e) ==
    /\ derr' = e
    /\ dpc' = "ret"

\* isEmpty, err := common.IsDirEmpty(di.cloneDir)
DeployIsDirEmpty ==
    /\ dpc = "isDirEmpty"
    /\ \/ /\ DeployFails("fs")
          /\ UNCHANGED isEmpty
       \/ /\ isEmpty' = IsDirEmpty(workspace)
          /\ dpc' = IF isEmpty' THEN "clone" ELSE "clean"
          /\ UNCHANGED derr
    /\ UNCHANGED <<dcaller, found, attempts, prevOk>>
    /\ UNCHANGED <<cfgVars, cancelled, runVars, obsVars, wgVars, workspace, rtVars>>

\* common.CleanDir(di.cloneDir): every entry removed, or an error with the
\* entries not yet removed left behind
DeployCleanDir ==
    /\ dpc = "clean"
    /\ \/ /\ workspace' = {}
          /\ dpc' = "clone"
          /\ UNCHANGED derr
       \/ /\ \E left \in (SUBSET workspace) \ {{}} : workspace' = left
          /\ DeployFails("fs")
    /\ UNCHANGED <<dcaller, isEmpty, found, attempts, prevOk>>
    /\ UNCHANGED <<cfgVars, cancelled, runVars, obsVars, wgVars, rtVars>>

\* di.git.Clone(ctx, di.cloneDir, accessToken, repo): the tree is written,
\* or an error with part of it written
DeployClone ==
    /\ dpc = "clone"
    /\ \E tree \in Trees :
        \/ /\ workspace' = workspace \cup Tag(tree, attempts)
           /\ dpc' = "list"
           /\ UNCHANGED derr
        \/ /\ \E part \in SUBSET tree : workspace' = workspace \cup Tag(part, attempts)
           /\ DeployFails("clone")
    /\ UNCHANGED <<dcaller, isEmpty, found, attempts, prevOk>>
    /\ UNCHANGED <<cfgVars, cancelled, runVars, obsVars, wgVars, rtVars>>

----------------------------------------------------------------------------
(* DockerfileDeployer.Deploy *)

\* df.cli.ContainerList and the search loop of safeRemoveContainer up to
\* its first call on the matched container
DeployList ==
    /\ dpc = "list"
    /\ svcBefore' = {c.id : c \in Named(containers, Target)}
    /\ \/ /\ DeployFails("runtime")
          /\ UNCHANGED found
       \/ LET matches == {c \in ContainerList(containers) : NameMatches(c, Target)}
          IN  /\ UNCHANGED derr
              /\ IF matches = {}
                 THEN /\ found' = 0
                      /\ dpc' = "create"
                 ELSE \E c \in matches :
                      /\ found' = c.id
                      /\ dpc' = IF isStoppable(c.state) THEN "stop" ELSE "remove"
    /\ UNCHANGED <<dcaller, isEmpty, attempts, prevOk>>
    /\ UNCHANGED <<containers, nextId>>
    /\ UNCHANGED <<cfgVars, cancelled, runVars, obsVars, wgVars, workspace>>

\* df.cli.ContainerStop(ctx, c.ID, copts)
DeployStop ==
    /\ dpc = "stop"
    /\ \/ /\ DeployFails("runtime")
          /\ UNCHANGED containers
       \/ /\ containers' = {IF c.id = found THEN [c EXCEPT !.state = "exited"] ELSE c :
                              c \in containers}
          /\ dpc' = "remove"
          /\ UNCHANGED derr
    /\ UNCHANGED <<dcaller, isEmpty, found, attempts, prevOk>>
    /\ UNCHANGED <<nextId, svcBefore>>
    /\ UNCHANGED <<cfgVars, cancelled, runVars, obsVars, wgVars, workspace>>

\* variant: the error of ContainerRemove is not looked at
DeployRemove_IgnoreError ==
    /\ dpc = "remove"
    /\ \/ UNCHANGED containers
       \/ /\ \A c \in containers : c.id = found => Removable(c.state)
          /\ containers' = {c \in containers : c.id # found}
    /\ dpc' = "create"
    /\ UNCHANGED derr
    /\ UNCHANGED <<dcaller, isEmpty, found, attempts, prevOk>>
    /\ UNCHANGED <<nextId, svcBefore>>
    /\ UNCHANGED <<cfgVars, cancelled, runVars, obsVars, wgVars, workspace>>

\* df.cli.ContainerRemove(ctx, c.ID, ...) with Force: false: the runtime
\* removes no container that is running
DeployRemove ==
    /\ dpc = "remove"
    /\ \/ /\ DeployFails("runtime")
          /\ UNCHANGED containers
       \/ /\ \A c \in containers : c.id = found => Removable(c.state)
          /\ containers' = {c \in containers : c.id # found}
          /\ dpc' = "create"
          /\ UNCHANGED derr
    /\ UNCHANGED <<dcaller, isEmpty, found, attempts, prevOk>>
    /\ UNCHANGED <<nextId, svcBefore>>
    /\ UNCHANGED <<cfgVars, cancelled, runVars, obsVars, wgVars, workspace>>

\* variant: when the create fails the removed container is put back
DeployCreate_Rollback ==
    /\ dpc = "create"
    /\ IF Named(containers, Target) # {}
       THEN /\ DeployFails("conflict")
            /\ UNCHANGED <<containers, nextId>>
       ELSE \/ /\ DeployFails("runtime")
               /\ containers' = containers \cup
                     (IF found = 0 THEN {}
                      ELSE {[id |-> found, names |-> {Target}, state |-> "exited"]})
               /\ UNCHANGED nextId
            \/ /\ containers' = containers \cup
                     {[id |-> nextId, names |-> {Target}, state |-> "created"]}
               /\ nextId' = nextId + 1
               /\ DeployFails("nil")
    /\ UNCHANGED <<dcaller, isEmpty, found, attempts, prevOk>>
    /\ UNCHANGED svcBefore
    /\ UNCHANGED <<cfgVars, cancelled, runVars, obsVars, wgVars, workspace>>

\* df.cli.ContainerCreate(ctx, nil, nil, nil, nil, params.ContainerName):
\* the runtime refuses a name that is in use; the container it creates is
\* not started
DeployCreate ==
    /\ dpc = "create"
    /\ IF Named(containers, Target) # {}
       THEN /\ DeployFails("conflict")
            /\ UNCHANGED <<containers, nextId>>
       ELSE \/ /\ DeployFails("runtime")
               /\ UNCHANGED <<containers, nextId>>
            \/ /\ containers' = containers \cup
                     {[id |-> nextId, names |-> {Target}, state |-> "created"]}
               /\ nextId' = nextId + 1
               /\ DeployFails("nil")
    /\ UNCHANGED <<dcaller, isEmpty, found, attempts, prevOk>>
    /\ UNCHANGED svcBefore
    /\ UNCHANGED <<cfgVars, cancelled, runVars, obsVars, wgVars, workspace>>

\* the runtime is shared with its other users: a container that is not
\* running is started outside the program
RuntimeStart ==
    /\ \E c \in containers :
        /\ c.state \in {"created", "exited"}
        /\ containers' = (containers \ {c}) \cup {[c EXCEPT !.state = "running"]}
    /\ UNCHANGED <<nextId, svcBefore>>
    /\ UNCHANGED <<cfgVars, cancelled, runVars, obsVars, wgVars, depVars, workspace>>

----------------------------------------------------------------------------
(* run() of cmd/main.go from the clone-directory check on *)

\* o.Observe(ctx, cfg.Repository) is entered
CallObserve ==
    /\ rpc' = "observe"
    /\ pc' = "select"

\* isEmpty, err := common.IsDirEmpty(cfg.CloneDir); the initial deploy is
\* called when the directory is empty
RunIsDirEmpty ==
    /\ rpc = "isDirEmpty"
    /\ \/ /\ rpc' = "exit"
          /\ runRet' = "fs"
          /\ UNCHANGED <<pc, dpc, dcaller, attempts>>
       \/ /\ IsDirEmpty(workspace)
          /\ rpc' = "initDeploy"
          /\ dpc' = "isDirEmpty"
          /\ dcaller' = "run"
          /\ attempts' = attempts + 1
          /\ UNCHANGED <<pc, runRet>>
       \/ /\ ~IsDirEmpty(workspace)
          /\ CallObserve
          /\ UNCHANGED <<runRet, dpc, dcaller, attempts>>
    /\ UNCHANGED <<ret, err, r, lastPushed, ticks, fanouts>>
    /\ UNCHANGED <<derr, isEmpty, found, prevOk>>
    /\ UNCHANGED <<cfgVars, cancelled, wgVars, workspace, rtVars>>

\* the errors of the startup deploy after which run() goes on
\* variant: every error is only logged
StartupTolerates_All(e) == TRUE
StartupTolerates(e) == e \in {"nil", "ErrDockerfileNotExist"}

\* err := di.Deploy(ctx) returned to run()
RunInitDeployReturn ==
    /\ rpc = "initDeploy"
    /\ dcaller = "run"
    /\ dpc = "ret"
    /\ dpc' = "idle"
    /\ prevOk' = (derr = "nil")
    /\ IF StartupTolerates(derr)
       THEN /\ CallObserve
            /\ UNCHANGED runRet
       ELSE /\ rpc' = "exit"
            /\ runRet' = derr
            /\ UNCHANGED pc
    /\ UNCHANGED <<ret, err, r, lastPushed, ticks, fanouts>>
    /\ UNCHANGED <<dcaller, derr, isEmpty, found, attempts>>
    /\ UNCHANGED <<cfgVars, cancelled, wgVars, workspace, rtVars>>

\* o.Observe returned to run()
RunObserveReturn ==
    /\ rpc = "observe"
    /\ pc = "done"
    /\ rpc' = "exit"
    /\ runRet' = ret
    /\ UNCHANGED <<cfgVars, cancelled, obsVars, wgVars, depVars, workspace, rtVars>>

\* what the steps of run() before IsDirEmpty leave alone
RunFrame ==
    UNCHANGED <<wired, nsubs, builds, env, fnVars, cancelled, obsVars, wgVars,
                depVars, workspace, rtVars, sinceFetch, crashed, o2>>

\* return err from run()
RunExit(e) ==
    /\ rpc' = "exit"
    /\ runRet' = e

\* cfg := config.MustParse(dir)
RunMustParse ==
    /\ rpc = "mustParse"
    /\ IF MustParse(env) = "ok"
       THEN /\ rpc' = "initDir"
            /\ UNCHANGED runRet
       ELSE /\ rpc' = "panic"
            /\ runRet' = MustParse(env)
    /\ UNCHANGED <<client, pinged>>
    /\ RunFrame

\* initDir, mapLogLevel and the log file: local steps that may fail
RunInitDir ==
    /\ rpc = "initDir"
    /\ \/ /\ rpc' = "newClient"
          /\ UNCHANGED runRet
       \/ RunExit("fs")
    /\ UNCHANGED <<client, pinged>>
    /\ RunFrame

\* switch cfg.Repository.Hostname() { github.New / gitlab.New / default }
RunNewClient ==
    /\ rpc = "newClient"
    /\ LET res == New(env.host, GitParams(env))
       IN  IF env.host \notin {GithubHost, GitlabHost}
           THEN RunExit("nohost") /\ UNCHANGED client
           ELSE IF res.err # "nil"
           THEN RunExit(res.err) /\ UNCHANGED client
           ELSE /\ rpc' = "ping"
                /\ client' = res.client
                /\ UNCHANGED runRet
    /\ UNCHANGED pinged
    /\ RunFrame

\* variant: the result of the ping is not looked at
RunPing_IgnoreError ==
    /\ rpc = "ping"
    /\ pinged' = IF client.variant = GitlabHost THEN pinged ELSE pinged + 1
    /\ rpc' = "docker"
    /\ UNCHANGED <<runRet, client>>
    /\ RunFrame

\* git.Ping(ctx): an HTTP request for GitHub, errUnimplemented for GitLab
RunPing ==
    /\ rpc = "ping"
    /\ IF client.variant = GitlabHost
       THEN RunExit("unimplemented") /\ UNCHANGED pinged
       ELSE /\ pinged' = pinged + 1
            /\ \/ rpc' = "docker" /\ UNCHANGED runRet
               \/ RunExit("ping")
    /\ UNCHANGED client
    /\ RunFrame

\* client.NewClientWithOpts(...)
RunDockerClient ==
    /\ rpc = "docker"
    /\ \/ /\ rpc' = "isDirEmpty"
          /\ UNCHANGED runRet
       \/ RunExit("runtime")
    /\ UNCHANGED <<client, pinged>>
    /\ RunFrame

----------------------------------------------------------------------------
(* Specification *)

Next ==
    \/ RunIsDirEmpty
    \/ RunInitDeployReturn
    \/ RunObserveReturn
    \/ ObserveSelect
    \/ ObserveFetch
    \/ NotifyReturn
    \/ UpdateWatermark
    \/ ObserveSleep
    \/ Cancel
    \/ RuntimeStart
    \/ \E i \in 1..MaxSubs : SubReturn(i)
    \/ DeploySubReturn
    \/ DeployIsDirEmpty
    \/ DeployCleanDir
    \/ DeployClone
    \/ DeployList
    \/ DeployStop
    \/ DeployRemove
    \/ DeployCreate

Spec == Init /\ [][Next]_vars

\* the steps of the program itself; Cancel and RuntimeStart are steps of its
\* environment
ProgramStep ==
    \/ RunIsDirEmpty
    \/ RunInitDeployReturn
    \/ RunObserveReturn
    \/ ObserveSelect
    \/ ObserveFetch
    \/ NotifyReturn
    \/ UpdateWatermark
    \/ ObserveSleep
    \/ \E i \in 1..MaxSubs : SubReturn(i)
    \/ DeploySubReturn
    \/ DeployIsDirEmpty
    \/ DeployCleanDir
    \/ DeployClone
    \/ DeployList
    \/ DeployStop
    \/ DeployRemove
    \/ DeployCreate

\* the Go scheduler runs every goroutine that is able to run
FairSpec == Spec /\ WF_vars(ProgramStep)

\* what a step of the second Observer leaves alone
Observe2Frame ==
    UNCHANGED <<baseVars, sinceFetch, crashed, cancelled, runVars, pc, ret, err, r,
                ticks, fanouts, wgVars, depVars, workspace, rtVars>>

\* the second Observer: GetRepository and the comparison with lastPushed;
\* its notify has no goroutine to wait for; o2.own is what its watermark
\* would be if it were its own
Observe2Fetch ==
    /\ o2.pc = "fetch"
    /\ \/ o2' = [o2 EXCEPT !.pc = "done"]
       \/ \E pushedAt \in Times : \E w \in ReadWatermark(pc = "update") :
            o2' = [o2 EXCEPT !.r = pushedAt,
                             !.pc = IF After(pushedAt, w) THEN "update" ELSE "sleep"]
    /\ UNCHANGED lastPushed
    /\ Observe2Frame

\* the second Observer: lastPushed = r.PushedAt
Observe2Update ==
    /\ o2.pc = "update"
    /\ lastPushed' = o2.r
    /\ o2' = [o2 EXCEPT !.own = o2.r, !.pc = "sleep"]
    /\ Observe2Frame

\* the second Observer: time.Sleep(o.interval) and the select
Observe2Sleep ==
    /\ o2.pc = "sleep"
    /\ o2' = [o2 EXCEPT !.pc = "fetch"]
    /\ UNCHANGED lastPushed
    /\ Observe2Frame

\* two Observers in one process
TwoNext ==
    \/ Next
    \/ Observe2Fetch
    \/ Observe2Update
    \/ Observe2Sleep

TwoSpec == TwoInit /\ [][TwoNext]_vars

\* the process is killed and started again with the same configuration: the
\* memory of the process is lost, the package variable lastPushed is
\* initialised again to time.Now(), which is not before any pushedAt the old
\* process had fetched; the clone directory and the containers stay as they
\* are
Crash ==
    /\ wired = "main"
    /\ rpc \in {"initDeploy", "observe"}
    /\ crashed.n < MaxCrashes
    /\ crashed' = [n |-> crashed.n + 1,
                   pending |-> pc \in {"wait", "update"},
                   pushed |-> IF pc \in {"wait", "update"} THEN r ELSE 0,
                   attempts |-> attempts]
    /\ lastPushed' \in {t \in Times : t >= lastPushed /\ t >= r}
    /\ rpc' = "isDirEmpty"
    /\ runRet' = "none"
    /\ pc' = "idle"
    /\ ret' = "none"
    /\ err' = "nil"
    /\ r' = 0
    /\ wg' = 0
    /\ sub' = [i \in Subs |-> "idle"]
    /\ dpc' = "idle"
    /\ dcaller' = "none"
    /\ derr' = "nil"
    /\ isEmpty' = FALSE
    /\ found' = 0
    /\ prevOk' = FALSE
    /\ sinceFetch' = 0
    /\ UNCHANGED <<baseVars, o2, cancelled, ticks, fanouts, attempts, workspace, rtVars>>

\* the program with restarts
CrashSpec == Init /\ [][Next \/ Crash]_vars

\* the program from the first line of run()
StartNext ==
    \/ RunMustParse
    \/ RunInitDir
    \/ RunNewClient
    \/ RunPing
    \/ RunDockerClient
    \/ Next

StartSpec == StartInit /\ [][StartNext]_vars

\* what a call of a function on its own leaves alone
FnFrame ==
    UNCHANGED <<wired, nsubs, builds, startVars, fname, fin, cancelled, runVars,
                obsVars, wgVars, depVars, workspace, rtVars, sinceFetch, crashed, o2>>

\* git, err = github.New(params) or gitlab.New(params)
CallNew ==
    /\ fname = "New"
    /\ Len(fout) = 0
    /\ fout' = <<New(fin.variant, fin.params)>>
    /\ FnFrame

\* common.GetDeployerType(dir), called twice on the same directory
CallGetDeployerType ==
    /\ fname = "GetDeployerType"
    /\ Len(fout) < 2
    /\ \E o \in GetDeployerType(fin) : fout' = Append(fout, o)
    /\ FnFrame

\* err := config.Generate(dir)
CallGenerate ==
    /\ fname = "Generate"
    /\ Len(fout) = 0
    /\ fout' = <<Generate(fin)>>
    /\ FnFrame

FnNext ==
    \/ CallNew
    \/ CallGetDeployerType
    \/ CallGenerate

FnSpec == FnInit /\ [][FnNext]_vars

\* the program from the first line of run(), or one of its functions called
\* on its own
AllSpec == (StartInit \/ FnInit) /\ [][StartNext \/ FnNext]_vars

----------------------------------------------------------------------------
(* Claims *)

TargetIds == {c.id : c \in Named(containers, Target)}

\* di.Deploy called by notify is between its entry and its return
DeployInFlight == dcaller = "notify" /\ dpc # "idle"

\* C1: once every subscription of a fan-out has returned, whether it
\* succeeded or failed, notify returns: wg.Wait() is able to return.
C1_NotifyCompletes ==
    (pc = "wait" /\ AllReturned) => ENABLED NotifyReturn

\* C2: notify is a barrier: while any subscription invoked for the push is
\* still running, Observe is inside notify; it has not reached the watermark
\* update, the sleep or the next tick.
C2_Barrier ==
    (SomeRunning \/ DeployInFlight) => pc = "wait"

C2_Witness ==
    /\ pc = "update"
    /\ nsubs >= 2
    /\ \A i \in Subs : sub[i] = "ok"

\* C3: lastPushed never decreases, whatever pushedAt values the fetches
\* return.
C3_WatermarkMonotonic ==
    [][lastPushed' >= lastPushed]_vars

C3_Witness ==
    /\ pc = "sleep"
    /\ ticks >= 2
    /\ lastPushed > StartTime
    /\ r < lastPushed

\* C4 as claimed: when the pushedAt fetched at a tick is strictly greater
\* than the one fetched at the tick before, the tick starts one fan-out.
C4_Original ==
    [][(pc = "fetch" /\ ticks >= 1 /\ ticks' = ticks + 1 /\ err' = "nil" /\ r' > r)
          => (fanouts' = fanouts + 1 /\ pc' = "wait")]_vars

\* C4 as amended: a tick starts one fan-out exactly when the pushedAt it
\* fetched is strictly after the watermark, no fan-out starts anywhere else,
\* and the watermark changes only in the step after notify has returned, when
\* no subscription is running, and then to the fetched pushedAt.
C4_Amended ==
    [][/\ (ticks' = ticks + 1 /\ err' = "nil")
            => ((r' > lastPushed) <=> (fanouts' = fanouts + 1 /\ pc' = "wait"))
       /\ fanouts' \in {fanouts, fanouts + 1}
       /\ (fanouts' # fanouts) => (ticks' = ticks + 1 /\ err' = "nil")
       /\ (lastPushed' # lastPushed)
            => (/\ pc = "update"
                /\ fanouts >= 1
                /\ ~SomeRunning
                /\ ~DeployInFlight
                /\ lastPushed' = r)]_vars

C4_Witness ==
    /\ pc = "sleep"
    /\ ticks >= 2
    /\ fanouts = 1
    /\ lastPushed = r
    /\ lastPushed > StartTime

\* C5: when di.Deploy returns an error during a fan-out, Observe does not
\* return and is able to leave notify and go on to the next tick.
C5_DeployErrorContained ==
    (pc = "wait" /\ sub[DeploySub] = "failed" /\ derr # "nil" /\ ~SomeRunning)
        => (ret = "none" /\ WaitReturns)

\* C6: a fan-out in which a subscription failed is still followed by the
\* watermark taking the pushedAt that triggered it.
C6_WatermarkAdvances ==
    (pc = "wait" /\ SomeFailed) ~> (lastPushed = r)

\* C7: a failed GetRepository ends Observe with that error, which run()
\* returns; the step starts no fan-out and leaves the watermark alone, and
\* afterwards there is no fetch, no fan-out and no watermark change.
C7_FetchFailureTerminates ==
    [][/\ (err' = "fetch")
            => (/\ pc' = "done"
                /\ ret' = "fetch"
                /\ fanouts' = fanouts
                /\ lastPushed' = lastPushed)
       /\ (err = "fetch")
            => (/\ ticks' = ticks
                /\ fanouts' = fanouts
                /\ lastPushed' = lastPushed
                /\ pc' = "done"
                /\ ret' = "fetch"
                /\ rpc' \in {rpc, "exit"}
                /\ (rpc' = "exit") => (runRet' = "fetch"))]_vars

C7_Witness ==
    /\ rpc = "exit"
    /\ runRet = "fetch"
    /\ ticks >= 2
    /\ fanouts >= 1

\* C8: with the context cancelled at the top of a tick, the next step of
\* Observe is its return of nil, with no fetch and no fan-out; and Observe
\* returns nil only there.
C8_CancelledReturnsNil ==
    [][/\ (pc = "select" /\ cancelled /\ pc' # pc)
            => (/\ pc' = "done"
                /\ ret' = "nil"
                /\ ticks' = ticks
                /\ fanouts' = fanouts
                /\ lastPushed' = lastPushed)
       /\ (ret' = "nil" /\ ret # "nil") => (pc = "select" /\ cancelled)]_vars

C8_Witness ==
    /\ pc = "done"
    /\ ret = "nil"
    /\ cancelled
    /\ ticks >= 1
    /\ ticks < MaxTicks

\* C9: when a deploy attempt follows a successful one and the runtime
\* reports no fault of its own, it leaves exactly one container named
\* Target, and not one that existed when the attempt began.
C9_SecondDeployReplaces ==
    (dpc = "ret" /\ prevOk /\ derr \in {"nil", "conflict"})
        => (Cardinality(TargetIds) = 1 /\ TargetIds \cap svcBefore = {})

\* C10: the clone directory is empty when the clone starts, and once the
\* clone has succeeded it holds exactly the tree this attempt cloned, up to
\* and including the attempt's successful return.
C10_CleanRoom ==
    /\ dpc = "clone" => workspace = {}
    /\ (dpc \in {"list", "stop", "remove", "create"} \/ (dpc = "ret" /\ derr = "nil"))
            => workspace \in {Tag(tree, attempts) : tree \in Trees}

C10_Witness ==
    /\ dpc = "ret"
    /\ derr = "nil"
    /\ ~isEmpty
    /\ attempts >= 2

Ids(cs) == {c.id : c \in cs}

\* C11: an attempt that cloned a tree without a Dockerfile and met no fault of
\* the file system, the clone or the runtime returns ErrDockerfileNotExist and
\* has created no container.
C11_DockerfileMissing ==
    (dpc = "ret" /\ derr \notin {"fs", "clone", "runtime"}
                 /\ <<"Dockerfile", attempts>> \notin workspace)
        => (derr = "ErrDockerfileNotExist" /\ TargetIds \subseteq svcBefore)

\* C14: DeployInvoker.Deploy short-circuits: a failed check, clean or clone
\* ends the attempt at once; the clone starts only on an emptied directory
\* with no error so far; ContainerList is reached only from a clone that
\* succeeded; once the attempt has its outcome nothing more is written,
\* removed or created; and the goroutine fails exactly when the outcome is an
\* error.
C14_ShortCircuit ==
    [][/\ (dpc \in {"isDirEmpty", "clean", "clone"} /\ derr' # "nil") => dpc' = "ret"
       /\ (dpc' = "clone" /\ dpc # "clone") => (workspace' = {} /\ derr' = "nil")
       /\ (dpc' = "list" /\ dpc # "list") => (dpc = "clone" /\ derr' = "nil")
       /\ (workspace' # workspace) => dpc \in {"clean", "clone"}
       /\ (Ids(containers') # Ids(containers)) => dpc \in {"remove", "create"}
       /\ (dpc = "ret")
            => (/\ dpc' \in {"ret", "idle"}
                /\ derr' = derr
                /\ workspace' = workspace
                /\ Ids(containers') = Ids(containers))
       /\ (dpc = "ret" /\ dpc' = "idle" /\ dcaller = "notify")
            => (sub'[DeploySub] = "failed" <=> derr # "nil")]_vars

C14_Witness ==
    /\ dpc = "ret"
    /\ derr = "clone"
    /\ ~isEmpty
    /\ \A e \in workspace : e[2] = attempts

\* C15: a listed container whose names contain Target is stopped first
\* exactly when it is running, paused or restarting; a container leaves the
\* runtime only by the remove of the matched container while it is not
\* running (the remove is not forced); a failed stop ends the attempt with
\* that error, the container kept and nothing created.
C15_TeardownRule ==
    [][/\ (dpc = "list" /\ dpc' \in {"stop", "remove"})
            => \E c \in containers :
                /\ c.id = found'
                /\ Target \in c.names
                /\ (dpc' = "stop") <=> (c.state \in {"running", "paused", "restarting"})
       /\ (dpc' = "remove" /\ dpc # "remove") => dpc \in {"list", "stop"}
       /\ \A c \in containers :
            (c.id \notin Ids(containers'))
                => (dpc = "remove" /\ c.id = found
                    /\ c.state \notin {"running", "paused", "restarting"})
       /\ (dpc = "stop" /\ dpc' # "remove" /\ dpc' # dpc)
            => (dpc' = "ret" /\ derr' = "runtime" /\ containers' = containers)
       /\ (dpc = "ret") => (Ids(containers') = Ids(containers) /\ nextId' = nextId)]_vars

C15_Witness ==
    /\ dpc = "create"
    /\ found \in svcBefore
    /\ found \notin TargetIds

\* C16: when DockerfileDeployer.Deploy has returned nil, a container named
\* Target that did not exist before the attempt is running.
C16_ReplacementRunning ==
    (dpc = "ret" /\ derr = "nil")
        => \E c \in Named(containers, Target) :
            c.id \notin svcBefore /\ c.state = "running"

\* C17: a deploy attempt that returned nil has built an image.
C17_ImageBuilt ==
    (dpc = "ret" /\ derr = "nil") => builds >= 1

\* C13: with a host other than github.com and gitlab.com, run() never gets
\* past MustParse: no client is constructed and no ping, fetch or clone is
\* made.
C13_UnsupportedHostRejected ==
    (wired = "main" /\ env.host \notin {GithubHost, GitlabHost})
        => (/\ rpc \in {"mustParse", "panic"}
            /\ client = NoClient
            /\ pinged = 0
            /\ ticks = 0
            /\ attempts = 0)

C13_Witness ==
    /\ env.host = "example.com"
    /\ rpc = "panic"
    /\ runRet = "host"

\* C20: with an interval or a timeout that is not greater than 0, run() never
\* gets past MustParse: no client is constructed, nothing is deployed or
\* watched.
C20_NonPositiveRejected ==
    (wired = "main" /\ (env.interval <= 0 \/ env.timeout <= 0))
        => (/\ rpc \in {"mustParse", "panic"}
            /\ client = NoClient
            /\ pinged = 0
            /\ ticks = 0
            /\ attempts = 0)

\* a path of exactly two non-empty segments, after an optional leading "/"
TwoSegments(p) ==
    LET q == IF Len(p) > 0 /\ p[1] = "/" THEN Tail(p) ELSE p
    IN  \E k \in 2..(Len(q) - 1) :
            /\ q[k] = "/"
            /\ \A j \in 1..Len(q) : j # k => q[j] # "/"

\* C12: for GitHub and GitLab alike, New with valid parameters succeeds
\* exactly when the URL path is two non-empty segments, and otherwise fails
\* with ErrInvalidRepoURL.
C12_TwoSegmentsOnly ==
    (fname = "New" /\ Len(fout) = 1 /\ ValidateParams(fin.params) = "nil")
        => (/\ (fout[1].err = "nil") <=> TwoSegments(fin.params.path)
            /\ ~TwoSegments(fin.params.path) => fout[1].err = "ErrInvalidRepoURL")

\* C18: GetDeployerType returns the type of a signature contained in the
\* first top-level non-directory entry that contains any signature, and two
\* calls on the same listing return the same result.
C18_DetectionIsFunction ==
    (fname = "GetDeployerType")
        => (/\ \A k \in 1..Len(fout) :
                 (fout[k].err = "nil" /\ fout[k].type # "UnknownContainerTool")
                    => \E i \in 1..Len(fin.entries) :
                        /\ ~fin.entries[i].isDir
                        /\ Contains(fin.entries[i].name, deployerSignatures[fout[k].type])
                        /\ \A j \in 1..(i - 1) :
                             \/ fin.entries[j].isDir
                             \/ \A d \in DOMAIN deployerSignatures :
                                  ~Contains(fin.entries[j].name, deployerSignatures[d])
            /\ Len(fout) = 2 => fout[1] = fout[2])

\* no top-level file of the workspace contains a signature
Unmatched(ws) ==
    \A e \in ws : \A d \in DOMAIN deployerSignatures :
        ~Contains(<<e[1]>>, deployerSignatures[d])

\* C19: an attempt whose clone succeeded and whose tree holds no build
\* signature ends with the "not yet supported" error and creates nothing.
C19_UnsupportedRejected ==
    (dpc = "ret" /\ derr \notin {"fs", "clone"} /\ workspace # {}
                 /\ Unmatched(workspace))
        => (derr = "unsupported" /\ TargetIds \subseteq svcBefore)

\* C21: without ACCESS_TOKEN run() ends in MustParse with the token panic,
\* whatever the state of the configuration file, and constructs no client and
\* makes no network call; and New never returns a client for an empty token.
C21_TokenRequired ==
    /\ (wired = "main" /\ ~env.token)
         => (/\ rpc \in {"mustParse", "panic"}
             /\ rpc = "panic" => runRet = "token"
             /\ client = NoClient
             /\ pinged = 0
             /\ ticks = 0
             /\ attempts = 0)
    /\ client # NoClient => env.token
    /\ (fname = "New" /\ Len(fout) = 1 /\ ~fin.params.token)
         => (fout[1].err # "nil" /\ fout[1].client = NoClient)

C21_Witness ==
    /\ ~env.token
    /\ env.file = "unreadable"
    /\ rpc = "panic"

\* C26: a fetch whose pushedAt is not after the watermark goes straight to
\* the sleep: no fan-out, no goroutine, no deploy attempt, and the watermark
\* is the same when the loop is back at its select.
C26_NoPushNoFanout ==
    [][/\ (pc = "fetch" /\ err' = "nil" /\ ticks' # ticks /\ r' <= lastPushed)
            => (/\ pc' = "sleep"
                /\ fanouts' = fanouts
                /\ sub' = sub
                /\ wg' = wg
                /\ attempts' = attempts
                /\ dpc' = dpc
                /\ lastPushed' = lastPushed)
       /\ (pc = "sleep") => (lastPushed' = lastPushed /\ fanouts' = fanouts)]_vars

C26_Witness ==
    /\ pc = "sleep"
    /\ err = "nil"
    /\ r = lastPushed
    /\ ticks >= 1
    /\ fanouts = 0

\* C27: a fan-out starts every subscription of the list, none of which is
\* still running; a subscription is started by a fan-out only and ends once,
\* as ok or failed, whatever the others do.
C27_EachSubscriptionOnce ==
    [][/\ (fanouts' # fanouts)
            => (/\ fanouts' = fanouts + 1
                /\ \A i \in Subs : sub[i] # "running" /\ sub'[i] = "running"
                /\ attempts' = attempts + 1
                /\ dcaller' = "notify")
       /\ \A i \in Subs :
            /\ (sub'[i] = "running" /\ sub[i] # "running") => fanouts' = fanouts + 1
            /\ (sub[i] = "running" /\ sub'[i] # "running")
                    => (sub'[i] \in {"ok", "failed"} /\ fanouts' = fanouts)
            /\ (sub[i] \in {"ok", "failed"} /\ sub'[i] # sub[i])
                    => fanouts' = fanouts + 1]_vars

C27_Witness ==
    /\ nsubs = 2
    /\ fanouts = 1
    /\ sub[1] = "failed"
    /\ sub[2] = "ok"

\* C28: wired by main, a deploy attempt starts only when none is in flight,
\* no fetch is made while one is, and the workspace is written only by the
\* attempt in flight.
C28_OneDeployAtATime ==
    [][(wired = "main")
            => (/\ (attempts' # attempts) => (dpc = "idle" /\ attempts' = attempts + 1)
                /\ (dpc # "idle") => (ticks' = ticks /\ pc \in {"idle", "wait"})
                /\ (workspace' # workspace) => dpc \in {"clean", "clone"})]_vars

C28_Witness ==
    /\ wired = "main"
    /\ attempts >= 2
    /\ dpc = "clone"
    /\ pc = "wait"

\* C29: run() passes the ping only when Ping returned nil, which for GitLab
\* it never does; until then, and after a failed ping, there is no deploy
\* attempt, no fetch and no call of Observe.
C29_PingGate ==
    [][(wired = "main")
            => (/\ (rpc = "ping" /\ rpc' # rpc)
                    => (/\ rpc' \in {"docker", "exit"}
                        /\ rpc' = "docker"
                            => (pinged' = pinged + 1 /\ client.variant = GithubHost)
                        /\ rpc' = "exit" => runRet' \in {"ping", "unimplemented"})
                /\ (rpc \in {"mustParse", "panic", "initDir", "newClient", "ping"})
                    => (attempts' = 0 /\ ticks' = 0 /\ pc' = "idle")
                /\ (rpc = "exit" /\ runRet \in {"ping", "unimplemented"})
                    => (attempts' = 0 /\ ticks' = 0 /\ pc' = "idle")
                /\ (env.host = GitlabHost)
                    => rpc' \in {"mustParse", "panic", "initDir", "newClient",
                                 "ping", "exit"})]_vars

C29_Witness ==
    /\ env.host = GitlabHost
    /\ rpc = "exit"
    /\ runRet = "unimplemented"

\* C30: run() starts a deploy attempt exactly when the clone directory is
\* found empty, and calls Observe at once when it is not; after the startup
\* attempt Observe is called when the result is nil or ErrDockerfileNotExist,
\* and otherwise run() returns the error and Observe is never called.
C30_StartupDeploy ==
    [][(wired = "main")
            => (/\ (rpc = "isDirEmpty" /\ rpc' = "initDeploy")
                    => (workspace = {} /\ attempts = 0 /\ attempts' = 1 /\ pc' = "idle")
                /\ (rpc = "isDirEmpty" /\ rpc' = "observe")
                    => (workspace # {} /\ attempts' = 0 /\ pc' = "select")
                /\ (rpc = "isDirEmpty" /\ rpc' = "exit") => runRet' = "fs"
                /\ (rpc = "initDeploy") => (pc = "idle" /\ ticks' = 0 /\ attempts' = 1)
                /\ (rpc = "initDeploy" /\ rpc' # rpc)
                    => IF derr \in {"nil", "ErrDockerfileNotExist"}
                       THEN rpc' = "observe" /\ pc' = "select"
                       ELSE rpc' = "exit" /\ runRet' = derr /\ pc' = "idle"
                /\ (rpc = "exit" /\ pc = "idle") => (pc' = "idle" /\ ticks' = 0))]_vars

C30_Witness ==
    /\ wired = "main"
    /\ rpc = "exit"
    /\ runRet = "clone"
    /\ attempts = 1
    /\ pc = "idle"

\* the directory that rel denotes when resolved against base
Denotes(base, rel) == CleanAbs(<<>>, base \o Split(rel, "/"))

\* C25: when Generate succeeds, an argument beginning with "." has
\* default.yaml written to the directory it denotes from the working
\* directory, and "~" or "~/..." to the directory it denotes from the home
\* directory.
C25_RelativeDirResolved ==
    (fname = "Generate" /\ Len(fout) = 1 /\ fout[1].err = "nil")
        => (/\ HasPrefix(fin.dir, ".") => fout[1].dir = Denotes(Cwd, fin.dir)
            /\ (fin.dir = <<"~">> \/ (Len(fin.dir) > 1 /\ fin.dir[1] = "~" /\ fin.dir[2] = "/"))
                 => fout[1].dir = Denotes(Home, Tail(fin.dir)))

\* C22: between two successive GetRepository calls of Observe at least the
\* configured interval has passed, with or without a fan-out in between.
C22_FetchSpacing ==
    [][(ticks' = ticks + 1 /\ ticks >= 1) => sinceFetch >= env.interval]_vars

C22_Witness ==
    /\ ticks = 2
    /\ fanouts = 1
    /\ pc = "sleep"
    /\ sinceFetch = 0
    /\ r < lastPushed
    /\ env.interval > 0

\* C23: when the process was restarted during a fan-out or before the
\* watermark update that follows it, then once the new process has polled a
\* pushedAt not older than that push and gone to sleep, it has started a
\* deploy attempt of its own.
C23_InterruptedPushRetried ==
    (/\ crashed.pending
     /\ rpc = "observe"
     /\ pc = "sleep"
     /\ err = "nil"
     /\ r >= crashed.pushed)
        => attempts > crashed.attempts

\* one Observer is at its write of lastPushed while the other reads or
\* writes it
Race ==
    \/ pc = "update" /\ o2.pc \in {"fetch", "update"}
    \/ o2.pc = "update" /\ pc \in {"fetch", "update"}

\* C24: the second Observer detects a push exactly when the fetched pushedAt
\* is after the watermark of its own detections, whatever the first Observer
\* has detected, and no access of one to the watermark races with the
\* other's.
C24_WatermarkPerInstance ==
    [][/\ (o2.pc = "fetch" /\ o2'.pc \in {"update", "sleep"})
            => ((o2'.pc = "update") <=> (o2'.r > o2.own))
       /\ ~Race]_vars

\* C31: ContainerCreate is reached only from a list that succeeded and
\* matched nothing, or from the remove of the matched container that
\* succeeded; an error of the list, the stop or the remove ends the attempt
\* with that error, and a container is created at ContainerCreate only.
C31_TeardownBeforeCreate ==
    [][/\ (dpc' = "create" /\ dpc # "create")
            => (/\ derr' = "nil"
                /\ \/ (dpc = "list" /\ found' = 0
                        /\ \A c \in ContainerList(containers) : Target \notin c.names)
                   \/ (dpc = "remove" /\ found # 0 /\ found \notin Ids(containers')))
       /\ (dpc \in {"list", "stop", "remove"} /\ derr' # "nil")
            => (dpc' = "ret" /\ derr' = "runtime")
       /\ (nextId' # nextId) => dpc = "create"
       /\ (dpc = "ret") => nextId' = nextId]_vars

C31_Witness ==
    /\ dpc = "ret"
    /\ derr = "runtime"
    /\ found # 0
    /\ nextId = 3
    /\ \E c \in containers : c.id = found /\ c.state = "exited"

\* C32: a step of a deploy attempt stops or removes only the container it
\* matched, whose names contain Target; the attempt matches once and goes
\* through the stop and the remove at most once.
C32_OnlyTheTarget ==
    [][/\ \A c \in containers :
            (c \notin containers')
                => \/ /\ dpc \in {"stop", "remove"}
                      /\ c.id = found
                      /\ Target \in c.names
                   \/ /\ dpc' = dpc
                      /\ c.state \in {"created", "exited"}
                      /\ [c EXCEPT !.state = "running"] \in containers'
       /\ Cardinality(containers \ containers') <= 1
       /\ (found' # found) => dpc = "list"
       /\ (dpc' = "stop" /\ dpc # "stop") => dpc = "list"
       /\ (dpc' = "remove" /\ dpc # "remove") => dpc \in {"list", "stop"}
       /\ (dpc' = "list") => dpc \in {"list", "clone"}]_vars

C32_Witness ==
    /\ dpc = "create"
    /\ found = 1
    /\ 1 \notin Ids(containers)
    /\ \E c \in containers : Target \notin c.names /\ c.state = "running"

\* C33: a failed ContainerCreate leaves the containers as they are; after an
\* attempt that removed the matched container and then failed, no container
\* is named Target, and none appears before a later attempt.
C33_NoRollback ==
    [][/\ (dpc = "create" /\ dpc' = "ret" /\ derr' # "nil") => containers' = containers
       /\ (dpc \in {"ret", "idle"} /\ derr = "runtime" /\ found \in svcBefore
              /\ found \notin Ids(containers))
            => (TargetIds = {} /\ Named(containers', Target) = {})]_vars

C33_Witness ==
    /\ dpc = "idle"
    /\ derr = "runtime"
    /\ found = 1
    /\ found \in svcBefore
    /\ 1 \notin Ids(containers)
    /\ TargetIds = {}

\* C34: a fetch starts one fan-out when its pushedAt is after the watermark,
\* by however much, and none otherwise; no fan-out starts between fetches;
\* the watermark changes only to the fetched pushedAt, and whenever the loop
\* is between a fetch and the next one the watermark is not older than the
\* pushedAt last fetched.
C34_Coalesced ==
    [][/\ (ticks' = ticks + 1 /\ err' = "nil")
            => fanouts' = fanouts + (IF r' > lastPushed THEN 1 ELSE 0)
       /\ (ticks' = ticks) => fanouts' = fanouts
       /\ (lastPushed' # lastPushed)
            => (pc = "update" /\ lastPushed' = r /\ r > lastPushed)
       /\ (pc' \in {"sleep", "select", "fetch"} /\ ticks' >= 1 /\ err' = "nil")
            => lastPushed' >= r']_vars

C34_Witness ==
    /\ ticks = 1
    /\ fanouts = 1
    /\ pc = "sleep"
    /\ r = StartTime + 2
    /\ lastPushed = r

\* C35: wired by main, the context is never cancelled, Observe never returns
\* nil, and when it has returned, it and run() have returned the fetch
\* error.
C35_OnlyFetchErrorEndsObserve ==
    (wired = "main")
        => (/\ ~cancelled
            /\ ret \in {"none", "fetch"}
            /\ pc = "done" => (ret = "fetch" /\ err = "fetch")
            /\ (rpc = "exit" /\ pc = "done") => runRet = "fetch")

C35_Witness ==
    /\ wired = "main"
    /\ pc = "done"
    /\ rpc = "exit"
    /\ runRet = "fetch"
    /\ fanouts >= 1

====
